---- MODULE Spec2Model ----
(***************************************************************************)
(* The hero visualisation of src/src/App.tsx as a state machine: the       *)
(* module-level drag object, the window pointer listeners, the mount       *)
(* life cycle of the Canvas children (BlackBox, and ParticleSystem behind  *)
(* a Suspense boundary on the load of brain.glb), the frame loop running   *)
(* the useFrame callbacks in subscription order, the vertex shader of one  *)
(* sample particle, the brain targets of useBrainTargets, and the          *)
(* analytic brain sampler of the earlier revision (src/unnamed/part_000).  *)
(*                                                                         *)
(* Numbers are fixed point.  Angles of the drag controller and of the      *)
(* group rotations are in units of 1e-8 rad; scroll progress, opacities,   *)
(* blend weights and particle coordinates are in thousandths; the clock is *)
(* in milliseconds; shader angles are in milliradians.  Products are       *)
(* rounded down (\div), where the program rounds to the nearest double.    *)
(***************************************************************************)
EXTENDS Integers, Sequences, FiniteSets, TLC

\* ---------------------------------------------------------------- bounds
MaxFrames == 2         \* rendered frames in a behaviour of Spec, SpecPointer, SpecAsset
MaxEvents == 3         \* window pointer events (move, up, cancel) in a behaviour of Spec
MaxMounts == 2         \* times the App is mounted
ReleaseFrames == 140   \* rendered frames in a behaviour of SpecRelease, SpecCoast
MorphFrames == 2       \* rendered frames in a behaviour of SpecMorph
SamplerCount == 2      \* particles the analytic sampler generates (PARTICLE_COUNT)
MaxTries == 2          \* rejected candidates per particle in a behaviour of SpecSampler

\* pointer coordinates (pixels) the events are drawn from
PointerPositions == {<<0, 0>>, <<100, 0>>, <<0, 400>>}
\* scroll progress values (thousandths) the frames of Spec are drawn from
ScrollValues == {0, 450}
\* clock advances (ms) of one frame
FrameDts == {16}

\* ------------------------------------------------------------- constants
DRAG_SENS   == 400000       \* 0.004 rad per pixel
DAMPING     == 90           \* 0.90, in hundredths
PITCH_LIMIT == 141371669    \* Math.PI * 0.45
VEL_EPSILON == 1000         \* 1e-5
TWO_PI_PER_MILLE  == 628319 \* Math.PI * 2   times one thousandth of scroll
HALF_PI_PER_MILLE == 157080 \* Math.PI * 0.5 times one thousandth of scroll
SPIN_PER_MS == 5000         \* elapsedTime * 0.05, per millisecond
PI_MILLI == 3142            \* pi, in milliradians

Abs(v) == IF v < 0 THEN -v ELSE v
Min(a, b) == IF a < b THEN a ELSE b
Max(a, b) == IF a > b THEN a ELSE b

VARIABLES
  drag,           \* the module-level drag object
  appMounted,     \* the App (and its Canvas) is mounted
  psState,        \* "none" | "suspended" | "mounted": BrainParticleSystem
  boxMounted,     \* BlackBox is mounted
  asset,          \* /models/brain.glb in useGLTF's cache: "idle" | "loading" |
                  \* "cached" (a scene with a mesh) | "empty" (a scene with no mesh) | "failed"
  moveListeners,  \* number of onMove listeners on window 'pointermove'
  upListeners,    \* number of onUp listeners on window 'pointerup'
  frameSubs,      \* the useFrame subscribers, in subscription order
  psRot,          \* rotation of the particle group
  box,            \* scale, rotation and material state of the black box
  particle,       \* attributes of one sample particle (positions, useMemo), or "none"
  uniforms,       \* uScroll and uTime of the shader material
  vert,           \* what the vertex shader last computed for the sample particle
  scroll,         \* smoothProgress as read by the last frame, thousandths
  elapsed,        \* state.clock.elapsedTime, ms
  frames, events, mounts, \* counters the bounds cap
  inertiaCalls,   \* history: calls of advanceDragInertia in the last frame
  frameLog,       \* history: what the callbacks of the last frame did, in order
  idleFrames,     \* history: inertia integrations since the last move or release
  sampler,        \* the analytic brain sampler: particle index, rejections, accepted points
  warnings        \* number of console.warn calls of useBrainTargets

vars == <<drag, appMounted, psState, boxMounted, asset, moveListeners, upListeners,
          frameSubs, psRot, box, particle, uniforms, vert, scroll, elapsed, frames, events, mounts,
          inertiaCalls, frameLog, idleFrames, sampler, warnings>>

\* ------------------------------------------------------- drag controller
drag0 == [yaw |-> 0, pitch |-> 0, velYaw |-> 0, velPitch |-> 0,
          active |-> FALSE, lastX |-> 0, lastY |-> 0]

\* Math.max(-PITCH_LIMIT, Math.min(PITCH_LIMIT, v))
ClampPitch(v) == Max(-PITCH_LIMIT, Min(PITCH_LIMIT, v))

\* v * DAMPING, rounded toward zero, without leaving 32 bits
Damp(v) ==
  LET a == Abs(v)
      m == (a \div 100) * DAMPING + ((a % 100) * DAMPING) \div 100
  IN IF v < 0 THEN -m ELSE m

\* the snap to zero left out
SnapNever(v) == v

\* if (Math.abs(v) < 1e-5) v = 0
Snap(v) == IF Abs(v) < VEL_EPSILON THEN 0 ELSE v

\* onMove with lines 75-76 left out: the last pointer position is not recorded
onMoveStaleLast(d, x, y) ==
  IF ~d.active THEN d
  ELSE LET vy == (x - d.lastX) * DRAG_SENS
           vp == (y - d.lastY) * DRAG_SENS
       IN [d EXCEPT !.velYaw = vy, !.velPitch = vp,
                    !.yaw = d.yaw + vy, !.pitch = ClampPitch(d.pitch + vp)]

onMove(d, x, y) ==
  IF ~d.active THEN d
  ELSE LET dx == x - d.lastX
           dy == y - d.lastY
           vy == dx * DRAG_SENS
           vp == dy * DRAG_SENS
       IN [d EXCEPT !.lastX = x, !.lastY = y,
                    !.velYaw = vy, !.velPitch = vp,
                    !.yaw = d.yaw + vy,
                    !.pitch = ClampPitch(d.pitch + vp)]

onUp(d) == [d EXCEPT !.active = FALSE]

\* startDrag with the test of the mouse button left out
startDragAnyButton(d, ptype, button, x, y) ==
  [d EXCEPT !.active = TRUE, !.lastX = x, !.lastY = y]

startDrag(d, ptype, button, x, y) ==
  IF ptype = "mouse" /\ button # 0 THEN d
  ELSE [d EXCEPT !.active = TRUE, !.lastX = x, !.lastY = y]

\* advanceDragInertia without the clamp of line 116
advanceDragInertiaUnclamped(d) ==
  IF d.active THEN d
  ELSE [d EXCEPT !.yaw = d.yaw + d.velYaw,
                 !.pitch = d.pitch + d.velPitch,
                 !.velYaw = Snap(Damp(d.velYaw)),
                 !.velPitch = Snap(Damp(d.velPitch))]

\* advanceDragInertia with the early return of line 113 left out
advanceDragInertiaAlways(d) ==
  [d EXCEPT !.yaw = d.yaw + d.velYaw,
            !.pitch = ClampPitch(d.pitch + d.velPitch),
            !.velYaw = Snap(Damp(d.velYaw)),
            !.velPitch = Snap(Damp(d.velPitch))]

\* advanceDragInertia with the damping of lines 117-118 moved before the
\* integration of lines 115-116
advanceDragInertiaDampFirst(d) ==
  IF d.active THEN d
  ELSE [d EXCEPT !.yaw = d.yaw + Damp(d.velYaw),
                 !.pitch = ClampPitch(d.pitch + Damp(d.velPitch)),
                 !.velYaw = Snap(Damp(d.velYaw)),
                 !.velPitch = Snap(Damp(d.velPitch))]

advanceDragInertia(d) ==
  IF d.active THEN d
  ELSE [d EXCEPT !.yaw = d.yaw + d.velYaw,
                 !.pitch = ClampPitch(d.pitch + d.velPitch),
                 !.velYaw = Snap(Damp(d.velYaw)),
                 !.velPitch = Snap(Damp(d.velPitch))]

\* ---------------------------------------------------------- frame callbacks
box0 == [opacity |-> 0, scale |-> 1000, rotX |-> 0, rotY |-> 0,
         solidOpacity |-> 1000, solidVisible |-> TRUE,
         wireOpacity |-> 1000, wireVisible |-> TRUE]
psRot0 == [x |-> 0, y |-> 0]
uniforms0 == [uScroll |-> 0, uTime |-> 0]
\* nothing drawn yet
vert0 == [drawn |-> FALSE]

\* ---------------------------------------------------------- vertex shader
\* sin of an angle in [0, pi] milliradians, in thousandths (Bhaskara's formula)
SinHalf(x) ==
  LET p == x * (PI_MILLI - x)
  IN (4000 * (p \div 10)) \div (((5 * PI_MILLI * PI_MILLI) \div 4 - p) \div 10)

Sin(x) ==
  LET r == x % (2 * PI_MILLI)
  IN IF r <= PI_MILLI THEN SinHalf(r) ELSE -SinHalf(r - PI_MILLI)

Cos(x) == Sin(x + PI_MILLI \div 2)

\* smoothstep with the cubic t*t*(3 - 3t)
SmoothstepWrongCubic(a, b, x) ==
  LET t == Max(0, Min(1000, ((x - a) * 1000) \div (b - a)))
  IN (t * t * (3000 - 3 * t)) \div 1000000

\* GLSL smoothstep(a, b, x): t = clamp((x-a)/(b-a), 0, 1); t*t*(3 - 2t)
Smoothstep(a, b, x) ==
  LET t == Max(0, Min(1000, ((x - a) * 1000) \div (b - a)))
  IN (t * t * (3000 - 2 * t)) \div 1000000

\* mix with the weights exchanged
MixSwapped(x, y, a) == (x * a + y * (1000 - a)) \div 1000

\* GLSL mix(x, y, a) = x*(1-a) + y*a
Mix(x, y, a) == (x * (1000 - a) + y * a) \div 1000

MixVec(p, q, a) == <<Mix(p[1], q[1], a), Mix(p[2], q[2], a), Mix(p[3], q[3], a)>>

\* the float offset added to pos.x and pos.y: amplitude 0.1 and 0.2, times (1 - 0.9 t1)
DriftX(uTime, aOffset, t1) == (Cos(uTime + aOffset) * (10000 - 9 * t1)) \div 100000
\* the y drift without its (1 - 0.9 t1) factor
DriftYUndamped(uTime, aOffset, t1) == (Sin((uTime * 3) \div 2 + aOffset) * 2 * 10000) \div 100000

DriftY(uTime, aOffset, t1) == (Sin((uTime * 3) \div 2 + aOffset) * 2 * (10000 - 9 * t1)) \div 100000

\* main() of the vertex shader, for the particle with attributes a under uniforms u
VertexShader(a, u) ==
  LET t1 == Smoothstep(100, 300, u.uScroll)
      p1 == MixVec(a.position, a.aBox, t1)
      t2 == Smoothstep(500, 700, u.uScroll)
      p2 == MixVec(p1, a.aBrain, t2)
      vPulse == Sin(u.uTime * 3 + a.aOffset) \div 2 + 500
      introFade == Smoothstep(50, 150, u.uScroll)
  IN [drawn |-> TRUE, t1 |-> t1, t2 |-> t2,
      pos |-> <<p2[1] + DriftX(u.uTime, a.aOffset, t1),
                p2[2] + DriftY(u.uTime, a.aOffset, t1),
                p2[3]>>,
      baseSize |-> Mix(Mix(20000, 10000, t1), 15000, t2) + vPulse * 4,
      vPulse |-> vPulse,
      introFade |-> introFade,
      vAlpha |-> (Mix(Mix(400, 800, t1), 600, t2) * introFade) \div 1000]

\* one entry of the positions useMemo: the random and box targets, the brain
\* target (brainTargets scaled by 5.0) and the phase offset of particle i
positions(random, boxTarget, brainTarget, offset) ==
  [position |-> random, aBox |-> boxTarget,
   aBrain |-> <<brainTarget[1] * 5, brainTarget[2] * 5, brainTarget[3] * 5>>,
   aOffset |-> offset]

\* useBrainTargets for one particle: with no mesh in the scene a warning and the
\* zero-filled Float32Array, otherwise the point the surface sampler returned
useBrainTargets(hasMesh, sampled) ==
  IF ~hasMesh THEN [warned |-> TRUE, out |-> <<0, 0, 0>>]
  ELSE [warned |-> FALSE, out |-> sampled]

\* the outcomes of Math.random() and of sampler.sample(pos) for one particle
Draws(random, boxTarget, sampled, offset) ==
  [random |-> random, boxTarget |-> boxTarget, sampled |-> sampled, offset |-> offset]

\* the sample particles of SpecMorph; the last is sampled at the origin of the mesh
MorphParticles ==
  { Draws(<<12000, -7000, 3000>>, <<2000, -1500, 500>>, <<400, 200, -300>>, 1000),
    Draws(<<-25000, 24000, -1000>>, <<-2550, 2550, 0>>, <<-900, 100, 50>>, 0),
    Draws(<<100, 0, -20000>>, <<0, 1000, -2000>>, <<0, 0, 0>>, 4700) }
\* scroll progress values and clock advances of the frames of SpecMorph
MorphScroll == {10 * k : k \in 0..100}
MorphDts == {16, 700}

\* the sample particles of Spec: outcomes of the Math.random() draws and of the sampler
SpecParticles == {Draws(<<12000, -7000, 3000>>, <<2000, -1500, 500>>, <<400, 200, -300>>, 1000)}

\* the hold at 1 over (0.3, 0.4] left out
BoxOpacityNoHold(s) ==
  IF s > 100 /\ s <= 300 THEN ((s - 100) * 1000) \div 200
  ELSE IF s > 400 /\ s <= 500 THEN 1000 - ((s - 400) * 1000) \div 100
  ELSE 0

BoxOpacity(s) ==
  IF s > 100 /\ s <= 300 THEN ((s - 100) * 1000) \div 200
  ELSE IF s > 300 /\ s <= 400 THEN 1000
  ELSE IF s > 400 /\ s <= 500 THEN 1000 - ((s - 400) * 1000) \div 100
  ELSE 0

BoxScale(s) ==
  IF s > 400 /\ s <= 500 THEN 1000 + ((((s - 400) * 1000) \div 100) * 8) \div 10
  ELSE 1000

\* the callback ParticleSystem passes to useFrame, on the world w
ParticleSystemFrame(w, s, t) ==
  LET d == advanceDragInertia(w.drag)
  IN [w EXCEPT !.uniforms = [uScroll |-> s, uTime |-> t],
               !.drag = d,
               !.calls = w.calls + 1,
               !.integrated = w.integrated \/ ~w.drag.active,
               !.psRot = [y |-> t * SPIN_PER_MS + s * TWO_PI_PER_MILLE + d.yaw,
                          x |-> s * HALF_PI_PER_MILLE + d.pitch],
               !.log = w.log \o <<"inertia", "particles.read">>]

\* the callback BlackBox passes to useFrame
BlackBoxFrame(w, s) ==
  LET opacity == BoxOpacity(s)
  IN [w EXCEPT !.box = [opacity |-> opacity, scale |-> BoxScale(s),
                        rotY |-> s * TWO_PI_PER_MILLE + w.drag.yaw,
                        rotX |-> s * HALF_PI_PER_MILLE + w.drag.pitch,
                        solidOpacity |-> (opacity * 95) \div 100,
                        solidVisible |-> opacity > 0,
                        wireOpacity |-> (opacity * 3) \div 10,
                        wireVisible |-> opacity > 0],
               !.log = Append(w.log, "box.read")]

\* the render loop calls the subscribers in subscription order
RECURSIVE RunSubscribers(_, _, _, _)
RunSubscribers(subs, w, s, t) ==
  IF subs = <<>> THEN w
  ELSE RunSubscribers(Tail(subs),
                      IF Head(subs) = "particles" THEN ParticleSystemFrame(w, s, t)
                                                  ELSE BlackBoxFrame(w, s),
                      s, t)

\* ------------------------------------------------- analytic brain sampler
\* (the positions useMemo of src/unnamed/part_000; coordinates in thousandths,
\* Math.random() outcomes in thousandths of [0, 1))
sampler0 == [i |-> 0, tries |-> 0, accepted |-> <<>>, brain |-> <<>>]

\* candidate coordinates and Math.random() outcomes the draws are taken from
CandidateXs == {-700, 0, 900}
CandidateYs == {-450, -300, 0}
CandidateZs == {-300, -20, 60, 300}
RandomDraws == {0, 999}

\* the base silhouette without its axis weights
OutsideSphere(bx, by, bz) == 10 * bx * bx + 10 * by * by + 10 * bz * bz > 10000000

\* bx*bx + by*by*1.4 + bz*bz*1.2 > 1.0
OutsideEllipsoid(bx, by, bz) == 10 * bx * bx + 14 * by * by + 12 * bz * bz > 10000000

\* distToCerebCenter, squared: (bx+0.5)^2 + (by+0.5)^2 + bz^2
CerebDistSq(bx, by, bz) == (bx + 500) * (bx + 500) + (by + 500) * (by + 500) + bz * bz

\* sin(nx + cos(ny)) * cos(ny + sin(nz)) * sin(nz + cos(nx)), with n = 12 b
FoldNoise(bx, by, bz) ==
  LET nx == 12 * bx
      ny == 12 * by
      nz == 12 * bz
  IN (((Sin(nx + Cos(ny)) * Cos(ny + Sin(nz))) \div 1000) * Sin(nz + Cos(nx))) \div 1000

\* let fissure = Math.abs(bz)
Fissure(bz) == Abs(bz)

\* one pass of the while (true) body: TRUE when it reaches break, FALSE on a continue.
\* u1, u2, u3 are the outcomes of the three Math.random() calls of the soft tests.
Accepts(bx, by, bz, u1, u2, u3) ==
  /\ ~OutsideEllipsoid(bx, by, bz)
  /\ (by < -200 /\ bx > -200) => (~(by < -400) /\ ~(u1 > (by + 400) * 5))
  /\ (by < -200 /\ bx < -200 /\ CerebDistSq(bx, by, bz) > 160000
        /\ CerebDistSq(bx, by, bz) < 250000) => ~(u2 > 100)
  /\ ~(FoldNoise(bx, by, bz) > 250)
  /\ ~(Fissure(bz) < 40)
  /\ ~(Fissure(bz) < 80 /\ u3 > (Fissure(bz) - 40) * 25)

\* ------------------------------------------------------------------ Init
Init ==
  /\ drag = drag0
  /\ appMounted = FALSE
  /\ psState = "none"
  /\ boxMounted = FALSE
  /\ asset = "idle"
  /\ moveListeners = 0
  /\ upListeners = 0
  /\ frameSubs = <<>>
  /\ psRot = psRot0
  /\ box = box0
  /\ particle = "none"
  /\ uniforms = uniforms0
  /\ vert = vert0
  /\ scroll = 0
  /\ elapsed = 0
  /\ frames = 0
  /\ events = 0
  /\ mounts = 0
  /\ inertiaCalls = 0
  /\ frameLog = <<>>
  /\ idleFrames = 0
  /\ sampler = sampler0
  /\ warnings = 0

\* --------------------------------------------------------------- actions
\* ParticleSystem mounts: useBrainTargets, the positions useMemo and
\* useDragListeners' effect
MountParticles(P, hasMesh) ==
  /\ psState' = "mounted"
  /\ \E a \in P :
        LET brainTargets == useBrainTargets(hasMesh, a.sampled)
        IN /\ particle' = positions(a.random, a.boxTarget, brainTargets.out, a.offset)
           /\ warnings' = IF brainTargets.warned THEN warnings + 1 ELSE warnings
  /\ moveListeners' = moveListeners + 1
  /\ upListeners' = upListeners + 1

\* <App/> mounts.  With brain.glb in the cache useGLTF returns at once and the
\* effects run in tree order (ParticleSystem, then BlackBox); otherwise
\* BrainParticleSystem suspends and only BlackBox commits.
MountApp(P) ==
  /\ ~appMounted
  /\ asset # "failed"
  /\ mounts < MaxMounts
  /\ appMounted' = TRUE
  /\ mounts' = mounts + 1
  /\ boxMounted' = TRUE
  /\ IF asset \in {"cached", "empty"}
       THEN /\ MountParticles(P, asset = "cached")
            /\ frameSubs' = <<"particles", "box">>
            /\ asset' = asset
       ELSE /\ psState' = "suspended"
            /\ frameSubs' = <<"box">>
            /\ asset' = "loading"
            /\ UNCHANGED <<moveListeners, upListeners, particle, warnings>>
  /\ UNCHANGED <<sampler, drag, psRot, box, uniforms, vert, scroll, elapsed, frames, events, inertiaCalls, frameLog, idleFrames>>

\* brain.glb arrives: the Suspense boundary resolves and ParticleSystem mounts
AssetLoaded(P, hasMesh) ==
  /\ asset = "loading"
  /\ asset' = IF hasMesh THEN "cached" ELSE "empty"
  /\ IF psState = "suspended"
       THEN /\ MountParticles(P, hasMesh)
            /\ frameSubs' = Append(frameSubs, "particles")
       ELSE UNCHANGED <<psState, moveListeners, upListeners, frameSubs, particle, warnings>>
  /\ UNCHANGED <<sampler, drag, appMounted, boxMounted, psRot, box, uniforms, vert, scroll, elapsed, frames, events, mounts,
                 inertiaCalls, frameLog, idleFrames>>

\* the teardown with the cleanup of useDragListeners left out
TeardownLeaky ==
  /\ appMounted' = FALSE
  /\ boxMounted' = FALSE
  /\ psState' = "none"
  /\ UNCHANGED <<moveListeners, upListeners>>
  /\ frameSubs' = <<>>
  /\ psRot' = psRot0
  /\ box' = box0
  /\ particle' = "none"
  /\ uniforms' = uniforms0
  /\ vert' = vert0
  /\ elapsed' = 0
  /\ UNCHANGED <<warnings, sampler, drag, scroll, frames, events, mounts, inertiaCalls, frameLog, idleFrames>>

\* the React tree of <App/> is torn down: effect cleanups run, the Canvas and
\* its clock are gone; the module-level drag object stays
Teardown ==
  /\ appMounted' = FALSE
  /\ boxMounted' = FALSE
  /\ psState' = "none"
  /\ moveListeners' = IF psState = "mounted" THEN moveListeners - 1 ELSE moveListeners
  /\ upListeners' = IF psState = "mounted" THEN upListeners - 1 ELSE upListeners
  /\ frameSubs' = <<>>
  /\ psRot' = psRot0
  /\ box' = box0
  /\ particle' = "none"
  /\ uniforms' = uniforms0
  /\ vert' = vert0
  /\ elapsed' = 0
  /\ UNCHANGED <<warnings, sampler, drag, scroll, frames, events, mounts, inertiaCalls, frameLog, idleFrames>>

\* <App/> unmounts
UnmountApp ==
  /\ appMounted
  /\ Teardown
  /\ asset' = asset

\* brain.glb cannot be loaded: useGLTF throws the load error while rendering
\* BrainParticleSystem; no error boundary is above it, so React unmounts the tree.
\* The error stays in the cache: a later mount throws it again and never commits.
AssetFailed ==
  /\ asset = "loading"
  /\ asset' = "failed"
  /\ IF appMounted
       THEN Teardown
       ELSE UNCHANGED <<warnings, sampler, drag, appMounted, psState, boxMounted, moveListeners,
                        upListeners, frameSubs, psRot, box, particle, uniforms, vert, scroll,
                        elapsed, frames, events, mounts, inertiaCalls, frameLog, idleFrames>>

\* onPointerDown of a rotating group
PointerDown(target, ptype, button, x, y) ==
  /\ IF target = "particles" THEN psState = "mounted" ELSE boxMounted
  /\ drag' = startDrag(drag, ptype, button, x, y)
  /\ UNCHANGED <<warnings, sampler, appMounted, psState, boxMounted, asset, moveListeners, upListeners,
                 frameSubs, psRot, box, particle, uniforms, vert, scroll, elapsed, frames, events, mounts,
                 inertiaCalls, frameLog, idleFrames>>

RECURSIVE Dispatch2(_, _, _, _)
Dispatch2(n, d, x, y) == IF n = 0 THEN d ELSE Dispatch2(n - 1, onMove(d, x, y), x, y)

\* window 'pointermove': every registered onMove runs
PointerMove(x, y) ==
  /\ drag' = Dispatch2(moveListeners, drag, x, y)
  /\ events' = events + 1
  /\ idleFrames' = IF drag' # drag THEN 0 ELSE idleFrames
  /\ UNCHANGED <<warnings, sampler, appMounted, psState, boxMounted, asset, moveListeners, upListeners,
                 frameSubs, psRot, box, particle, uniforms, vert, scroll, elapsed, frames, mounts,
                 inertiaCalls, frameLog>>

\* window 'pointerup': every registered onUp runs
PointerUp ==
  /\ drag' = IF upListeners > 0 THEN onUp(drag) ELSE drag
  /\ events' = events + 1
  /\ idleFrames' = IF drag' # drag THEN 0 ELSE idleFrames
  /\ UNCHANGED <<warnings, sampler, appMounted, psState, boxMounted, asset, moveListeners, upListeners,
                 frameSubs, psRot, box, particle, uniforms, vert, scroll, elapsed, frames, mounts,
                 inertiaCalls, frameLog>>

\* window 'pointercancel': no listener is registered for it
PointerCancel ==
  /\ events' = events + 1
  /\ UNCHANGED <<warnings, sampler, drag, appMounted, psState, boxMounted, asset, moveListeners, upListeners,
                 frameSubs, psRot, box, particle, uniforms, vert, scroll, elapsed, frames, mounts,
                 inertiaCalls, frameLog, idleFrames>>

\* one rendered frame at scroll progress s, dt ms after the last: the subscribed
\* callbacks run, then the scene is drawn (the vertex shader runs)
Frame(s, dt) ==
  /\ appMounted
  /\ \E w \in {RunSubscribers(frameSubs,
                                [drag |-> drag, psRot |-> psRot, box |-> box,
                                 uniforms |-> uniforms, calls |-> 0,
                                 integrated |-> FALSE, log |-> <<>>],
                                s, elapsed + dt)} :
        /\ drag' = w.drag
        /\ psRot' = w.psRot
        /\ box' = w.box
        /\ uniforms' = w.uniforms
        /\ vert' = IF psState = "mounted" THEN VertexShader(particle, w.uniforms) ELSE vert
        /\ inertiaCalls' = w.calls
        /\ frameLog' = w.log
        /\ idleFrames' = IF w.integrated THEN idleFrames + 1 ELSE idleFrames
        /\ elapsed' = elapsed + dt
  /\ scroll' = s
  /\ frames' = frames + 1
  /\ UNCHANGED <<warnings, sampler, appMounted, psState, boxMounted, asset, moveListeners, upListeners,
                 frameSubs, particle, events, mounts>>

Next ==
  \/ MountApp(SpecParticles)
  \/ AssetLoaded(SpecParticles, TRUE)
  \/ UnmountApp
  \/ \E target \in {"particles", "box"}, ptype \in {"mouse", "touch"}, button \in {0, 2},
        p \in PointerPositions : PointerDown(target, ptype, button, p[1], p[2])
  \/ events < MaxEvents /\ \E p \in PointerPositions : PointerMove(p[1], p[2])
  \/ events < MaxEvents /\ PointerUp
  \/ events < MaxEvents /\ PointerCancel
  \/ frames < MaxFrames /\ \E s \in ScrollValues, dt \in FrameDts : Frame(s, dt)

Spec == Init /\ [][Next]_vars

\* The release scenario: the visualisation mounts, then one drag (pointer-down at
\* the origin, one pointer-move by dx = 100, pointer-up), with rendered frames
\* at any point in between and after.
NextRelease ==
  \/ MountApp(SpecParticles)
  \/ AssetLoaded(SpecParticles, TRUE)
  \/ psState = "mounted" /\ ~drag.active /\ events = 0 /\ PointerDown("box", "mouse", 0, 0, 0)
  \/ drag.active /\ events = 0 /\ PointerMove(100, 0)
  \/ drag.active /\ events = 1 /\ PointerUp
  \/ frames < ReleaseFrames /\ Frame(0, 16)

SpecRelease == Init /\ [][NextRelease]_vars

\* Coasting: one drag (pointer-down at the origin, one pointer-move, pointer-up)
\* and the Idle frames after it, for moves to the right, up-left and far down.
CoastMoves == {<<100, 0>>, <<-50, 50>>, <<0, 400>>}

NextCoast ==
  \/ MountApp(SpecParticles)
  \/ AssetLoaded(SpecParticles, TRUE)
  \/ psState = "mounted" /\ ~drag.active /\ events = 0 /\ PointerDown("particles", "touch", 0, 0, 0)
  \/ drag.active /\ events = 0 /\ \E p \in CoastMoves : PointerMove(p[1], p[2])
  \/ drag.active /\ events = 1 /\ PointerUp
  \/ frames < ReleaseFrames /\ Frame(0, 16)

SpecCoast == Init /\ [][NextCoast]_vars

\* Pointer input on one mounted visualisation: every kind of pointer-down on either
\* object, pointer-moves, pointer-ups and frames, with no unmount.
NextPointer ==
  \/ MountApp(SpecParticles)
  \/ AssetLoaded(SpecParticles, TRUE)
  \/ \E target \in {"particles", "box"}, ptype \in {"mouse", "touch"}, button \in {0, 2},
        p \in PointerPositions : PointerDown(target, ptype, button, p[1], p[2])
  \/ events < MaxEvents /\ \E p \in PointerPositions : PointerMove(p[1], p[2])
  \/ events < MaxEvents /\ PointerUp
  \/ frames < MaxFrames /\ \E s \in ScrollValues, dt \in FrameDts : Frame(s, dt)

SpecPointer == Init /\ [][NextPointer]_vars

\* Every outcome of loading brain.glb (a scene with a mesh, a scene with no mesh,
\* a failed load), with mounts and unmounts, a drag by dx = 100 and frames.
NextAsset ==
  \/ MountApp(SpecParticles)
  \/ \E hasMesh \in BOOLEAN : AssetLoaded(SpecParticles, hasMesh)
  \/ AssetFailed
  \/ UnmountApp
  \/ \E target \in {"particles", "box"} : PointerDown(target, "touch", 0, 0, 0)
  \/ events < MaxEvents /\ PointerMove(100, 0)
  \/ events < MaxEvents /\ PointerUp
  \/ frames < MaxFrames /\ \E s \in ScrollValues, dt \in FrameDts : Frame(s, dt)

SpecAsset == Init /\ [][NextAsset]_vars

\* Scroll-driven rendering alone: the mount and frames over the whole
\* range of scroll progress, with no pointer input.
NextMorph ==
  \/ MountApp(MorphParticles)
  \/ AssetLoaded(MorphParticles, TRUE)
  \/ frames < MorphFrames /\ \E s \in MorphScroll, dt \in MorphDts : Frame(s, dt)

SpecMorph == Init /\ [][NextMorph]_vars

\* One pass of the rejection loop for particle sampler.i: a candidate is drawn and
\* either rejected (the loop goes round) or accepted and stored, scaled per axis.
DrawCandidate(bx, by, bz, u1, u2, u3) ==
  /\ sampler.i < SamplerCount
  /\ IF Accepts(bx, by, bz, u1, u2, u3)
       THEN sampler' = [i |-> sampler.i + 1, tries |-> 0,
                        accepted |-> Append(sampler.accepted, <<bx, by, bz>>),
                        brain |-> Append(sampler.brain,
                                         <<(bx * 55) \div 10, by * 5, (bz * 45) \div 10>>)]
       ELSE /\ sampler.tries < MaxTries
            /\ sampler' = [sampler EXCEPT !.tries = sampler.tries + 1]
  /\ UNCHANGED <<warnings, drag, appMounted, psState, boxMounted, asset, moveListeners, upListeners,
                 frameSubs, psRot, box, particle, uniforms, vert, scroll, elapsed,
                 frames, events, mounts, inertiaCalls, frameLog, idleFrames>>

NextSampler ==
  \E bx \in CandidateXs, by \in CandidateYs, bz \in CandidateZs,
     u1 \in RandomDraws, u2 \in RandomDraws, u3 \in RandomDraws :
       DrawCandidate(bx, by, bz, u1, u2, u3)

SpecSampler == Init /\ [][NextSampler]_vars

\* ------------------------------------------------------------------ claims

\* C1: in every reachable state drag.pitch lies in [-0.45 pi, 0.45 pi], whatever
\* pointer-down, pointer-move (also by 400 px at once), pointer-up and frames came before.
C1_PitchBounded == -PITCH_LIMIT <= drag.pitch /\ drag.pitch <= PITCH_LIMIT

\* a released drag whose 400 px move overshot the limit, one inertia step later
C1_Witness ==
  /\ ~drag.active
  /\ idleFrames > 0
  /\ drag.pitch = PITCH_LIMIT
  /\ drag.velPitch = Damp(400 * DRAG_SENS)

\* C2: in every rendered frame advanceDragInertia is called exactly once, whichever
\* of the particle group and the black box are mounted in that frame.
C2_OncePerFrame == elapsed > 0 => inertiaCalls = 1

\* C3: in every frame in which both objects are drawn, the inertia step comes before
\* any read of yaw/pitch for a rotation, in either subscription order.
C3_InertiaBeforeReads ==
  (elapsed > 0 /\ Len(frameLog) = 3) => frameLog[1] = "inertia"

\* C4: a pointer-up or a pointer-cancel on the window while Dragging, with the
\* window listeners registered, leaves the controller Idle.
C4_UpOrCancelEndsDrag ==
  [][(drag.active /\ upListeners > 0 /\ (PointerUp \/ PointerCancel)) => ~drag'.active]_vars

\* C5: after every frame that drew both objects, the rotation of the box group
\* equals the rotation of the particle group, about x and about y.
C5_SameRotation ==
  (elapsed > 0 /\ Len(frameLog) = 3) => (box.rotX = psRot.x /\ box.rotY = psRot.y)

\* C6, as amended: after the move by dx = 100 velYaw is 0.4; each of the first 100
\* Idle frames after the release multiplies it by 0.90 and leaves it at or above
\* 1e-5; the 101st sets it to exactly 0, and from then on yaw does not change.
C6_Decay101 ==
  /\ [](events = 1 => drag.velYaw = 100 * DRAG_SENS)
  /\ [](events = 2 /\ idleFrames <= 100 => drag.velYaw >= VEL_EPSILON)
  /\ [](events = 2 /\ idleFrames >= 101 => drag.velYaw = 0)
  /\ [][(events = 2 /\ idleFrames' = idleFrames + 1 /\ idleFrames' <= 100)
          => (10 * drag'.velYaw <= 9 * drag.velYaw /\ 10 * drag'.velYaw > 9 * drag.velYaw - 10)]_vars
  /\ [][(events = 2 /\ idleFrames >= 101) => drag'.yaw = drag.yaw]_vars

\* the 101st Idle frame after the release has snapped velYaw to 0
C6_Witness == events = 2 /\ idleFrames = 101 /\ drag.velYaw = 0 /\ drag.yaw > 4 * 100 * DRAG_SENS

\* C6, as stated: velYaw stays at or above 1e-5 until about the 131st Idle frame
\* (here: through the 125th).
C6_Decay131 == (events = 2 /\ idleFrames <= 125) => drag.velYaw >= VEL_EPSILON


\* C7: the opacity the box callback computes from scroll progress s is 0 for s <= 0.1,
\* (s-0.1)/0.2 on (0.1,0.3], 1 on (0.3,0.4], 1-(s-0.4)/0.1 on (0.4,0.5] and 0 above;
\* it has no jump (between two frames it changes by at most 10 times the change of s).
C7_OpacityShape ==
  elapsed > 0 =>
    /\ (scroll <= 100 => box.opacity = 0)
    /\ (scroll > 100 /\ scroll <= 300 => box.opacity = 5 * (scroll - 100))
    /\ (scroll > 300 /\ scroll <= 400 => box.opacity = 1000)
    /\ (scroll > 400 /\ scroll <= 500 => box.opacity = 1000 - 10 * (scroll - 400))
    /\ (scroll > 500 => box.opacity = 0)

C7_BoxOpacity ==
  [][/\ C7_OpacityShape'
     /\ (elapsed > 0 /\ elapsed' > elapsed)
          => (box'.opacity - box.opacity <= 10 * Abs(scroll' - scroll)
              /\ box.opacity - box'.opacity <= 10 * Abs(scroll' - scroll))]_vars

\* a frame half way down the fade-out ramp
C7_Witness == elapsed > 0 /\ scroll = 450 /\ box.opacity = 500 /\ box.solidVisible

\* C8, as amended: at s = 0, t1 = t2 = 0, the rendered position is the random target
\* plus the float offset at full amplitude (0.1 cos(time + offset) in x,
\* 0.2 sin(1.5 time + offset) in y), with nothing of box or brain, and alpha is 0.
C8_AtScrollZero ==
  (vert.drawn /\ uniforms.uScroll = 0) =>
    /\ vert.t1 = 0 /\ vert.t2 = 0
    /\ vert.pos = <<particle.position[1] + Cos(uniforms.uTime + particle.aOffset) \div 10,
                    particle.position[2] + Sin((uniforms.uTime * 3) \div 2 + particle.aOffset) \div 5,
                    particle.position[3]>>
    /\ vert.introFade = 0 /\ vert.vAlpha = 0

\* a particle drawn at s = 0 away from its random target
C8_Witness == vert.drawn /\ uniforms.uScroll = 0 /\ vert.pos[2] # particle.position[2]

\* C8, as stated: at s = 0 the rendered position is the random target exactly.
C8_PosIsRandom ==
  (vert.drawn /\ uniforms.uScroll = 0) =>
    (vert.t1 = 0 /\ vert.t2 = 0 /\ vert.pos = particle.position /\ vert.vAlpha = 0)

\* C9, as amended: at s = 0.3, t1 = 1 and t2 = 0 and the rendered position is the box
\* target plus the float offset at a tenth of its amplitude; whenever t2 = 1 (s >= 0.7)
\* it is the brain target plus that same residual offset, whatever the first blend gave.
C9_BlendEndpoints ==
  vert.drawn =>
    LET rx == Cos(uniforms.uTime + particle.aOffset) \div 100
        ry == Sin((uniforms.uTime * 3) \div 2 + particle.aOffset) \div 50
    IN /\ uniforms.uScroll = 300 =>
            /\ vert.t1 = 1000 /\ vert.t2 = 0
            /\ vert.pos = <<particle.aBox[1] + rx, particle.aBox[2] + ry, particle.aBox[3]>>
       /\ uniforms.uScroll = 700 => vert.t2 = 1000
       /\ vert.t2 = 1000 =>
            vert.pos = <<particle.aBrain[1] + rx, particle.aBrain[2] + ry, particle.aBrain[3]>>

\* a particle drawn at s = 0.7 off its brain target by the residual offset
C9_Witness ==
  vert.drawn /\ uniforms.uScroll = 700 /\ vert.t2 = 1000 /\ vert.pos[2] # particle.aBrain[2]

\* C9, as stated: at s = 0.3 the rendered position is the box target, and whenever
\* t2 = 1 it is the brain target.
C9_PosIsTarget ==
  vert.drawn =>
    /\ uniforms.uScroll = 300 => (vert.t1 = 1000 /\ vert.t2 = 0 /\ vert.pos = particle.aBox)
    /\ uniforms.uScroll = 700 => vert.t2 = 1000
    /\ vert.t2 = 1000 => vert.pos = particle.aBrain


\* C10: every point the rejection loop accepted satisfies, unscaled: it lies in the
\* ellipsoid x^2 + 1.4 y^2 + 1.2 z^2 <= 1, |z| >= 0.04, not (y < -0.4 and x > -0.2),
\* and its fold noise is at most 0.25, whatever the random draws were.
C10_AcceptedInShape ==
  \A k \in 1..Len(sampler.accepted) :
    LET c == sampler.accepted[k]
    IN /\ 10 * c[1] * c[1] + 14 * c[2] * c[2] + 12 * c[3] * c[3] <= 10000000
       /\ (c[3] >= 40 \/ c[3] <= -40)
       /\ ~(c[2] < -400 /\ c[1] > -200)
       /\ FoldNoise(c[1], c[2], c[3]) <= 250

\* the first particle was accepted inside the soft zones of the bottom-front cut and
\* of the fissure; the second has had a candidate rejected
C10_Witness ==
  /\ sampler.i = 1
  /\ sampler.tries > 0
  /\ sampler.accepted[1] = <<900, -300, 60>>


\* C11: for each particle the rejection loop stops after a fixed maximum number of
\* rejected candidates (here: before the cap MaxTries of the model is reached) and
\* stores a substitute point, so generation finishes whatever the random draws are.
C11_RetriesBounded == sampler.tries < MaxTries

\* C12: when the load of brain.glb ends with the asset missing or with a scene that
\* holds no mesh while BrainParticleSystem waits for it, a warning is logged, the
\* particle system mounts with the zero-filled brain target (3 entries per particle)
\* and the black box and the rest of the app stay mounted.
C12_AssetNeverAborts ==
  [][(asset = "loading" /\ asset' \in {"empty", "failed"} /\ psState = "suspended")
       => /\ appMounted' /\ boxMounted'
          /\ psState' = "mounted"
          /\ particle'.aBrain = <<0, 0, 0>>
          /\ warnings' = warnings + 1]_vars

\* C13: after the tree is torn down every listener registered at mount is detached
\* (none is left on window), and a pointer-move or pointer-up that arrives while the
\* app is unmounted changes nothing of the shared orientation state, for every
\* sequence of mounts and unmounts.
C13_DetachedAfterTeardown ==
  [][/\ ~appMounted' => (moveListeners' = 0 /\ upListeners' = 0)
     /\ (~appMounted /\ events' = events + 1) => drag' = drag]_vars

\* torn down in the middle of a drag whose move a registered listener had handled
C13_Witness ==
  ~appMounted /\ mounts > 0 /\ drag.active /\ drag.velYaw # 0 /\ moveListeners = 0

\* C14: a pointer-down on a rotating object from a mouse button other than the
\* primary one leaves the shared orientation state entirely unchanged; any other
\* pointer-down sets active and records the pointer position in lastX, lastY, and
\* modifies none of yaw, pitch, velYaw, velPitch.
C14_PointerDownEffect ==
  [][\A target \in {"particles", "box"}, ptype \in {"mouse", "touch"}, button \in {0, 2},
        p \in PointerPositions :
          PointerDown(target, ptype, button, p[1], p[2]) =>
            IF ptype = "mouse" /\ button # 0
              THEN drag' = drag
              ELSE /\ drag'.active /\ drag'.lastX = p[1] /\ drag'.lastY = p[2]
                   /\ drag'.yaw = drag.yaw /\ drag'.pitch = drag.pitch
                   /\ drag'.velYaw = drag.velYaw /\ drag'.velPitch = drag.velPitch]_vars

\* a drag started at (0, 400) with the velocity of an earlier move by dx = 100 kept
C14_Witness ==
  /\ drag.active /\ drag.lastX = 0 /\ drag.lastY = 400
  /\ drag.velYaw = 100 * DRAG_SENS /\ drag.pitch = 0

\* C15: a pointer-move that the registered listener receives while Dragging, with
\* dx, dy the displacement from the last recorded position, sets velYaw = dx * 0.004
\* and velPitch = dy * 0.004, adds velYaw to yaw, sets pitch to pitch + velPitch
\* clamped to [-0.45 pi, 0.45 pi] and records the position as the new last
\* position; received while Idle it changes nothing of the orientation state.
C15_PointerMoveEffect ==
  [][\A p \in PointerPositions :
        (moveListeners > 0 /\ PointerMove(p[1], p[2])) =>
          IF drag.active
            THEN LET dx == p[1] - drag.lastX
                     dy == p[2] - drag.lastY
                 IN /\ drag'.velYaw = dx * 400000
                    /\ drag'.velPitch = dy * 400000
                    /\ drag'.yaw = drag.yaw + dx * 400000
                    /\ drag'.pitch = Max(-PITCH_LIMIT, Min(PITCH_LIMIT, drag.pitch + dy * 400000))
                    /\ drag'.lastX = p[1] /\ drag'.lastY = p[2]
                    /\ drag'.active
            ELSE drag' = drag]_vars

\* a move by dy = 400 from rest was handled in mid-drag: pitch stopped at the limit
C15_Witness ==
  /\ drag.active /\ drag.lastY = 400 /\ drag.velPitch = 400 * DRAG_SENS
  /\ drag.pitch = PITCH_LIMIT

\* C16: an inertia step taken while Idle adds the velocities it finds (before any
\* damping) to yaw and to pitch, clamps pitch to [-0.45 pi, 0.45 pi], then multiplies
\* both velocities by 0.90 and then sets a velocity of magnitude below 1e-5 to
\* exactly 0; once both velocities are 0 an Idle frame leaves yaw and pitch unchanged.
C16_InertiaStep ==
  [][(frames' = frames + 1 /\ psState = "mounted" /\ ~drag.active) =>
       LET damped(v) == (Abs(v) * 9) \div 10
           next(v) == IF damped(v) < 1000 THEN 0 ELSE IF v < 0 THEN -damped(v) ELSE damped(v)
       IN /\ drag'.yaw = drag.yaw + drag.velYaw
          /\ drag'.pitch = Max(-PITCH_LIMIT, Min(PITCH_LIMIT, drag.pitch + drag.velPitch))
          /\ drag'.velYaw = next(drag.velYaw)
          /\ drag'.velPitch = next(drag.velPitch)
          /\ (drag.velYaw = 0 /\ drag.velPitch = 0) =>
                (drag'.yaw = drag.yaw /\ drag'.pitch = drag.pitch)]_vars

\* the release of a move up-left has coasted to rest: both velocities were set
\* to 0, with pitch stopped at the limit on the way
C16_Witness ==
  /\ ~drag.active /\ idleFrames >= 100
  /\ drag.velYaw = 0 /\ drag.velPitch = 0
  /\ drag.yaw < 0 /\ drag.pitch = PITCH_LIMIT

\* C17: each smoothstep weight of the vertex shader, t1 over (0.1, 0.3), t2 over
\* (0.5, 0.7) and introFade over (0.05, 0.15), lies in [0, 1], is exactly 0 at and
\* below its lower edge, exactly 1 at and above its upper edge, and does not
\* decrease when the scroll progress does not decrease from one frame to the next.
C17_SmoothstepShape ==
  [][vert'.drawn =>
       LET s == uniforms'.uScroll
       IN /\ \A w \in {vert'.t1, vert'.t2, vert'.introFade} : 0 <= w /\ w <= 1000
          /\ s <= 100 => vert'.t1 = 0
          /\ s >= 300 => vert'.t1 = 1000
          /\ s <= 500 => vert'.t2 = 0
          /\ s >= 700 => vert'.t2 = 1000
          /\ s <= 50 => vert'.introFade = 0
          /\ s >= 150 => vert'.introFade = 1000
          /\ (vert.drawn /\ uniforms.uScroll <= s) =>
                /\ vert.t1 <= vert'.t1
                /\ vert.t2 <= vert'.t2
                /\ vert.introFade <= vert'.introFade]_vars

\* the second frame, drawn at s = 0.2: t1 is half-way, introFade has reached 1,
\* t2 is still 0
C17_Witness ==
  /\ vert.drawn /\ frames = 2 /\ scroll = 200 /\ uniforms.uScroll = 200
  /\ vert.t1 = 500 /\ vert.t2 = 0 /\ vert.introFade = 1000

\* C18: whenever a rotating object accepts a pointer-down, the window listeners
\* for pointer-move and pointer-up are registered: drag.active never becomes true
\* in a state where no pointer-up handler is installed.
C18_DragOnlyWithListeners ==
  [][(~drag.active /\ drag'.active) => (moveListeners > 0 /\ upListeners > 0)]_vars

\* C19: while Dragging a frame (its inertia step) leaves yaw, pitch, velYaw and
\* velPitch unchanged; during a drag the velocities change only in a pointer-move,
\* a pointer-down does not change them and neither does the pointer-up, so at
\* pointer-up they are those of the last pointer-move of the drag (or those from
\* before the drag if there was none), however many frames were rendered.
C19_InertiaSuspendedInDrag ==
  [][/\ (drag.active /\ frames' = frames + 1) =>
          /\ drag'.yaw = drag.yaw /\ drag'.pitch = drag.pitch
          /\ drag'.velYaw = drag.velYaw /\ drag'.velPitch = drag.velPitch
     /\ (drag.active /\ (drag'.velYaw # drag.velYaw \/ drag'.velPitch # drag.velPitch)) =>
          (events' = events + 1 /\ frames' = frames /\ drag'.active)
     /\ (drag.active # drag'.active) =>
          (drag'.velYaw = drag.velYaw /\ drag'.velPitch = drag.velPitch)]_vars

\* still Dragging after a move by dx = 100 from rest, and the last frame was
\* rendered after that move: yaw and velYaw are what the move set
C19_Witness ==
  /\ drag.active /\ psState = "mounted" /\ elapsed > 0 /\ inertiaCalls = 1
  /\ drag.velYaw = 100 * DRAG_SENS /\ drag.yaw = 100 * DRAG_SENS
  /\ psRot.y = elapsed * SPIN_PER_MS + scroll * TWO_PI_PER_MILLE + drag.yaw

====
